---- MODULE Spec2Model ----
(***************************************************************************)
(* A model of lisc/scrape.py (scrape_counts, scrape_words and their        *)
(* helpers) and of lisc/words.py (the Words container).                    *)
(*                                                                         *)
(* Four specifications share the module's variables; each leaves the       *)
(* variables of the others untouched:                                      *)
(*   SpecWords  - one run of scrape_words                                  *)
(*   SpecCounts - one run of scrape_counts                                 *)
(*   SpecUrl    - the search-term builders, as pure functions              *)
(*   SpecObj    - a Words object under add_results / run_scrape / [key]    *)
(***************************************************************************)
EXTENDS Integers, Sequences, FiniteSets

VARIABLES
    \* ---- scrape_words ----
    w_pc,        \* position in scrape_words
    w_req,       \* the Requester: "none", "open", "closed"
    w_err,       \* the exception that left scrape_words, or "none"
    use_hist,    \* argument use_hist
    n_labels,    \* len(labels)
    ind,         \* number of loop iterations of `for ind, lab` started
    count,       \* count parsed from the search page (history branch)
    ret_start,   \* ret_start of the history loop
    sent,        \* retstart values of the fetch requests of this concept
    ids,         \* ids parsed from the search page (direct branch)
    fetch_ids,   \* id arguments of the fetch requests of this concept
    cur_dat,     \* the Data object of the current concept
    saved        \* what save_n_clear has written so far, in order

w_vars == <<w_pc, w_req, w_err, use_hist, n_labels, ind, count, ret_start,
            sent, ids, fetch_ids, cur_dat, saved>>

VARIABLES
    \* ---- scrape_counts ----
    c_pc,            \* position in scrape_counts
    c_req,           \* the Requester: "none", "open", "closed"
    c_err,           \* the exception that left scrape_counts, or "none"
    terms_lst_a,     \* argument terms_lst_a
    excls_lst_a,     \* argument excls_lst_a
    terms_lst_b,     \* terms_lst_b, after `Sort out terms`
    excls_lst_b,     \* excls_lst_b, after `Sort out terms`
    a_pos,           \* position of `for term_a in terms_lst_a`
    b_pos,           \* position of `for term_b in terms_lst_b`
    term_a_counts,
    term_b_counts,
    dat_numbers,
    dat_percent,
    c_log,           \* the search requests issued, in order
    svc              \* the service: the count it reports for each query
                     \* asked so far

c_vars == <<c_pc, c_req, c_err, terms_lst_a, excls_lst_a, terms_lst_b,
            excls_lst_b, a_pos, b_pos, term_a_counts, term_b_counts,
            dat_numbers, dat_percent, c_log, svc>>

VARIABLES
    \* ---- the search-term builders ----
    u_ta,        \* a term group of list A
    u_xa,        \* its exclusion group
    u_tb,        \* a term group of list B
    u_xb,        \* its exclusion group
    u_kind,      \* which url was built last, or "none"
    u_url        \* the url built last

u_vars == <<u_ta, u_xa, u_tb, u_xb, u_kind, u_url>>

VARIABLES
    \* ---- a Words object ----
    result_keys,     \* self.result_keys
    results,         \* self.results
    results_keys,    \* self.results_keys, once run_scrape has set it
    o_op,            \* the last call on the object
    o_key,           \* the key of the last __getitem__ call
    o_out            \* how the last call ended, and what it returned

o_vars == <<result_keys, results, results_keys, o_op, o_key, o_out>>

vars == <<w_vars, c_vars, u_vars, o_vars>>

\* what a run of scrape_words, of scrape_counts, a url builder and a Words
\* method leave alone
not_w == <<c_vars, u_vars, o_vars>>
not_c == <<w_vars, u_vars, o_vars>>
not_u == <<w_vars, c_vars, o_vars>>
not_o == <<w_vars, c_vars, u_vars>>

(***************************************************************************)
(* Bounds of the model.                                                    *)
(***************************************************************************)
NConcepts == 2
MaxPages == 2
MaxArts == 2
MaxIds == 2

(***************************************************************************)
(* scrape_words                                                            *)
(***************************************************************************)

\* ret_max = 100 of the history loop
ret_max == 100

\* Counts the search page may report: the values around each multiple of
\* the page size, up to MaxPages full pages and one more article.
Counts == {c \in 0..(MaxPages * ret_max + 1) :
              \E k \in 0..MaxPages : \E d \in {-1, 0, 1} : c = k * ret_max + d}

\* The lists a Data object keeps, one entry per article.
Fields == {"ids", "titles", "authors", "journals", "words", "kws",
           "pub_dates", "dois"}

\* Data(lab, terms[ind]): a new, empty container
Data(lab) == [label |-> lab,
                 lens |-> [f \in Fields |-> 0],
                 n_articles |-> 0]

\* Identifier lists a search page may carry: distinct ids, in page order.
IdLists == {s \in UNION {[1..n -> 1..MaxIds] : n \in 0..MaxIds} :
               \A i, j \in DOMAIN s : i # j => s[i] # s[j]}

\* The body of the loop of _ids_to_str: ids_str + ',' + str(ids[i].text)
RECURSIVE IdsLoop(_, _, _)
IdsLoop(ids_str, id_seq, i) ==
    IF i > Len(id_seq) THEN ids_str
    ELSE IdsLoop(ids_str \o <<",", id_seq[i]>>, id_seq, i + 1)

\* _ids_to_str raises IndexError on ids[0] when there is no id
IdsToStrRaises(id_seq) == Len(id_seq) = 0

\* _ids_to_str: the string as its sequence of pieces (ids and commas)
_ids_to_str(id_seq) == IdsLoop(<<id_seq[1]>>, id_seq, 2)

\* _extract_add_info on every article of a page: each add_* call appends
\* one entry, increment_n_articles counts the article.  `short` is the
\* list, if any, in which the container recorded one entry fewer.
_extract_add_info(dat, narts, short) ==
    [dat EXCEPT !.lens = [f \in Fields |->
                             IF f = short /\ narts > 0
                             THEN dat.lens[f] + narts - 1
                             ELSE dat.lens[f] + narts],
                !.n_articles = dat.n_articles + narts]

\* What the container may record of a page of narts articles: every entry,
\* or one entry fewer in the id list or in one of the other lists (which
\* of the other lists makes no difference to any step of scrape_words).
Shorts == {"none", "ids", "titles"}

\* Data.check_results: every list is as long as the id list and as
\* n_articles
Consistent(dat) == \A f \in Fields : dat.lens[f] = dat.n_articles

\* the loop condition written as `while ret_start <= count`
WhileCondInclusive(rs, c) == rs <= c

\* the loop condition `while ret_start < count`
WhileCond(rs, c) == rs < c

\* an exception leaves scrape_words: no handler, no finally
Raise(e) ==
    /\ w_pc' = "raised"
    /\ w_err' = e

W_Start ==
    /\ w_pc = "start"
    /\ w_req = "none"
    /\ w_err = "none"
    /\ use_hist \in BOOLEAN
    /\ n_labels \in 0..NConcepts
    /\ ind = 0
    /\ count = 0
    /\ ret_start = 0
    /\ sent = <<>>
    /\ ids = <<>>
    /\ fetch_ids = <<>>
    /\ cur_dat = Data(0)
    /\ saved = <<>>

\* req = Requester(); the URLS object is built
W_Open ==
    /\ w_pc = "start"
    /\ w_req' = "open"
    /\ w_pc' = "info"
    /\ UNCHANGED <<not_w, w_err, use_hist, n_labels, ind, count, ret_start, sent,
                   ids, fetch_ids, cur_dat, saved>>

\* db_info = _get_db_info(req, urls.info)
W_GetDbInfo ==
    /\ w_pc = "info"
    /\ \E ok \in BOOLEAN :
          IF ok THEN w_pc' = "loop" /\ w_err' = w_err
                ELSE Raise("RequestError")
    /\ UNCHANGED <<not_w, w_req, use_hist, n_labels, ind, count, ret_start, sent,
                   ids, fetch_ids, cur_dat, saved>>

\* for ind, lab in enumerate(labels): cur_dat = Data(lab, terms[ind]), the
\* search url is built
W_NextLabel ==
    /\ w_pc = "loop"
    /\ ind < n_labels
    /\ ind' = ind + 1
    /\ cur_dat' = Data(ind + 1)
    /\ sent' = <<>>
    /\ fetch_ids' = <<>>
    /\ w_pc' = "search"
    /\ UNCHANGED <<not_w, w_req, w_err, use_hist, n_labels, count, ret_start, ids,
                   saved>>

\* the loop over labels is exhausted
W_LoopDone ==
    /\ w_pc = "loop"
    /\ ind >= n_labels
    /\ w_pc' = "close"
    /\ UNCHANGED <<not_w, w_req, w_err, use_hist, n_labels, ind, count, ret_start,
                   sent, ids, fetch_ids, cur_dat, saved>>

\* page = req.get_url(url) fails
W_SearchFail ==
    /\ w_pc = "search"
    /\ Raise("RequestError")
    /\ UNCHANGED <<not_w, w_req, use_hist, n_labels, ind, count, ret_start, sent,
                   ids, fetch_ids, cur_dat, saved>>

\* use_hist: count, web_env and query_key are read from the search page
W_SearchHist ==
    /\ w_pc = "search"
    /\ use_hist
    /\ \E c \in Counts :
          /\ count' = c
          /\ ret_start' = 0
          /\ w_pc' = "paging"
    /\ UNCHANGED <<not_w, w_req, w_err, use_hist, n_labels, ind, sent, ids,
                   fetch_ids, cur_dat, saved>>

\* use_hist: the search page has no count, webenv or querykey tag, and
\* .text of None raises
W_SearchHistNoTag ==
    /\ w_pc = "search"
    /\ use_hist
    /\ Raise("AttributeError")
    /\ UNCHANGED <<not_w, w_req, use_hist, n_labels, ind, count, ret_start, sent,
                   ids, fetch_ids, cur_dat, saved>>

\* not use_hist: ids = page_soup.find_all('id'); ids_str = _ids_to_str(ids)
W_SearchIds ==
    /\ w_pc = "search"
    /\ ~use_hist
    /\ \E s \in IdLists :
          /\ ids' = s
          /\ IF IdsToStrRaises(s) THEN Raise("IndexError")
             ELSE w_pc' = "fetch" /\ w_err' = w_err
    /\ UNCHANGED <<not_w, w_req, use_hist, n_labels, ind, count, ret_start, sent,
                   fetch_ids, cur_dat, saved>>

\* one iteration of `while ret_start < count`: the fetch request for the
\* window at ret_start, _scrape_papers on its page, ret_start += ret_max
W_HistPage ==
    /\ w_pc = "paging"
    /\ WhileCond(ret_start, count)
    /\ sent' = Append(sent, ret_start)
    /\ \E narts \in 0..MaxArts, short \in Shorts :
          /\ cur_dat' = _extract_add_info(cur_dat, narts, short)
          /\ ret_start' = ret_start + ret_max
    /\ UNCHANGED <<not_w, w_pc, w_req, w_err, use_hist, n_labels, ind, count, ids,
                   fetch_ids, saved>>

\* the data of a concept, were a failed fetch to reset the container
DataRolledBack(dat) == Data(dat.label)

\* the data of a concept when a fetch request fails inside _scrape_papers:
\* req.get_url raises before cur_dat is touched
DataOnFetchFail(dat) == dat

\* one iteration of the history loop whose fetch request fails
W_HistPageFail ==
    /\ w_pc = "paging"
    /\ WhileCond(ret_start, count)
    /\ sent' = Append(sent, ret_start)
    /\ cur_dat' = DataOnFetchFail(cur_dat)
    /\ Raise("RequestError")
    /\ UNCHANGED <<not_w, w_req, use_hist, n_labels, ind, count, ret_start, ids,
                   fetch_ids, saved>>

\* the history loop ends
W_HistDone ==
    /\ w_pc = "paging"
    /\ ~WhileCond(ret_start, count)
    /\ w_pc' = "check"
    /\ UNCHANGED <<not_w, w_req, w_err, use_hist, n_labels, ind, count, ret_start,
                   sent, ids, fetch_ids, cur_dat, saved>>

\* not use_hist: the one fetch request with '&id=' + ids_str
W_Fetch ==
    /\ w_pc = "fetch"
    /\ fetch_ids' = Append(fetch_ids, _ids_to_str(ids))
    /\ \E narts \in 0..MaxArts, short \in Shorts :
          cur_dat' = _extract_add_info(cur_dat, narts, short)
    /\ w_pc' = "check"
    /\ UNCHANGED <<not_w, w_req, w_err, use_hist, n_labels, ind, count, ret_start,
                   sent, ids, saved>>

\* not use_hist: the fetch request fails
W_FetchFail ==
    /\ w_pc = "fetch"
    /\ fetch_ids' = Append(fetch_ids, _ids_to_str(ids))
    /\ cur_dat' = DataOnFetchFail(cur_dat)
    /\ Raise("RequestError")
    /\ UNCHANGED <<not_w, w_req, use_hist, n_labels, ind, count, ret_start, sent,
                   ids, saved>>

\* cur_dat.check_results(): an inconsistency is an exception, and nothing
\* in scrape_words catches it
W_Check ==
    /\ w_pc = "check"
    /\ IF Consistent(cur_dat)
       THEN w_pc' = "save" /\ w_err' = w_err
       ELSE Raise("ConsistencyError")
    /\ UNCHANGED <<not_w, w_req, use_hist, n_labels, ind, count, ret_start, sent,
                   ids, fetch_ids, cur_dat, saved>>

\* cur_dat.save_n_clear()
W_Save ==
    /\ w_pc = "save"
    /\ saved' = Append(saved, [label |-> cur_dat.label,
                               n_articles |-> cur_dat.n_articles])
    /\ cur_dat' = Data(cur_dat.label)
    /\ w_pc' = "loop"
    /\ UNCHANGED <<not_w, w_req, w_err, use_hist, n_labels, ind, count, ret_start,
                   sent, ids, fetch_ids>>

\* req.close(), after the loop; scrape_words returns
W_Close ==
    /\ w_pc = "close"
    /\ w_req' = "closed"
    /\ w_pc' = "returned"
    /\ UNCHANGED <<not_w, w_err, use_hist, n_labels, ind, count, ret_start, sent,
                   ids, fetch_ids, cur_dat, saved>>

W_Next ==
    \/ W_Open
    \/ W_GetDbInfo
    \/ W_NextLabel
    \/ W_LoopDone
    \/ W_SearchFail
    \/ W_SearchHist
    \/ W_SearchHistNoTag
    \/ W_SearchIds
    \/ W_HistPage
    \/ W_HistPageFail
    \/ W_HistDone
    \/ W_Fetch
    \/ W_FetchFail
    \/ W_Check
    \/ W_Save
    \/ W_Close

(***************************************************************************)
(* The search-term builders.  A url is the sequence of its pieces: the     *)
(* base, the quoted synonyms, the operators and the parentheses.           *)
(***************************************************************************)

\* urls.search, as built by build_search: the part before the term
SearchBase == <<"esearch?term=">>

RECURSIVE JoinOr(_, _)
JoinOr(lst, i) ==
    IF i > Len(lst) THEN <<>>
    ELSE IF i = 1 THEN <<lst[1]>> \o JoinOr(lst, 2)
    ELSE <<"OR", lst[i]>> \o JoinOr(lst, i + 1)

\* comb_terms(lst, jt): the synonyms joined by OR in parentheses; with
\* jt = 'not' the joined group is prefixed by NOT
comb_terms(lst, jt) ==
    IF jt = "or" THEN <<"(">> \o JoinOr(lst, 1) \o <<")">>
    ELSE <<"NOT", "(">> \o JoinOr(lst, 1) \o <<")">>

\* _mk(t_lst, cm): cm is '' (no piece) or an operator
_mk(t_lst, cm) ==
    IF t_lst[1] # "" THEN cm \o comb_terms(t_lst, "or") ELSE <<>>

\* the url of a single-term count in scrape_counts
SingleUrl(terms, excls) ==
    SearchBase \o _mk(terms, <<>>) \o _mk(excls, <<"NOT">>)

\* the url of a co-occurrence count in scrape_counts
PairUrl(ta, xa, tb, xb) ==
    SearchBase \o _mk(ta, <<>>) \o _mk(xa, <<"NOT">>)
               \o _mk(tb, <<"AND">>) \o _mk(xb, <<"NOT">>)

\* term_arg and the search url of scrape_words
WordsUrl(terms, excls) ==
    IF excls[1] # ""
    THEN SearchBase \o comb_terms(terms, "or") \o comb_terms(excls, "not")
    ELSE SearchBase \o comb_terms(terms, "or")

(***************************************************************************)
(* scrape_counts                                                           *)
(***************************************************************************)
MaxTerms == 2

\* term groups and exclusion groups of the runs explored
CGroups == {<<"x">>, <<"y">>}
CExcls == {<<"">>, <<"w">>}
TermLists == UNION {[1..n -> CGroups] : n \in 0..MaxTerms}
\* an exclusion list: not given ([]), or the same group for every term group
ExclLists(n) == {<<>>} \cup {[i \in 1..n |-> x] : x \in CExcls}

\* counts the service may report for a query
SvcCounts == {0, 4, 10}

\* lst.index(x): the first position holding a value equal to x
Index(lst, x) ==
    CHOOSE i \in 1..Len(lst) : lst[i] = x /\ \A j \in 1..(i - 1) : lst[j] # x

\* a_ind = terms_lst_a.index(term_a)
AInd(lst, pos) == Index(lst, lst[pos])

\* b_ind = terms_lst_b.index(term_b)
BInd(lst, pos) == Index(lst, lst[pos])

\* a float of the numpy arrays: a ratio in lowest terms, inf or nan
RECURSIVE Gcd(_, _)
Gcd(m, n) == IF n = 0 THEN m ELSE Gcd(n, m % n)
Num(n, d) == [kind |-> "num", num |-> n \div Gcd(n, d), den |-> d \div Gcd(n, d)]
Inf == [kind |-> "inf", num |-> 1, den |-> 0]
NaN == [kind |-> "nan", num |-> 0, den |-> 0]

\* count / term_a_counts[a_ind]: an int divided by a numpy float64; a zero
\* divisor gives inf or nan (and a RuntimeWarning), not an exception
Divide(n, d) ==
    IF d # 0 THEN Num(n, d) ELSE IF n = 0 THEN NaN ELSE Inf

\* the count the service reports for a query: the one it reported before
\* for the same query, or any count for a new query
Answers(url) ==
    IF \E e \in svc : e.url = url
    THEN {e.count : e \in {x \in svc : x.url = url}}
    ELSE SvcCounts

C_Raise(e) ==
    /\ c_pc' = "raised"
    /\ c_err' = e

C_Start ==
    /\ c_pc = "start"
    /\ c_req = "none"
    /\ c_err = "none"
    /\ terms_lst_a \in TermLists
    /\ excls_lst_a \in ExclLists(Len(terms_lst_a))
    /\ terms_lst_b \in TermLists
    /\ excls_lst_b \in ExclLists(Len(terms_lst_b))
    /\ a_pos = 0
    /\ b_pos = 0
    /\ term_a_counts = <<>>
    /\ term_b_counts = <<>>
    /\ dat_numbers = <<>>
    /\ dat_percent = <<>>
    /\ c_log = <<>>
    /\ svc = {}

\* the terms after `Sort out terms`: B is A when terms_lst_b is empty
SortedTermsB == IF Len(terms_lst_b) = 0 THEN terms_lst_a ELSE terms_lst_b
SortedExclsB == IF Len(terms_lst_b) = 0 THEN excls_lst_a ELSE excls_lst_b

\* req = Requester(), the URLS object, `Sort out terms`, np.zeros
C_Open ==
    /\ c_pc = "start"
    /\ c_req' = "open"
    /\ terms_lst_b' = SortedTermsB
    /\ excls_lst_b' = SortedExclsB
    /\ term_a_counts' = [i \in 1..Len(terms_lst_a) |-> 0]
    /\ term_b_counts' = [j \in 1..Len(SortedTermsB) |-> 0]
    /\ dat_numbers' = [i \in 1..Len(terms_lst_a) |->
                          [j \in 1..Len(SortedTermsB) |-> 0]]
    /\ dat_percent' = [i \in 1..Len(terms_lst_a) |->
                          [j \in 1..Len(SortedTermsB) |-> Num(0, 1)]]
    /\ c_pc' = "info"
    /\ UNCHANGED <<not_c, c_err, terms_lst_a, excls_lst_a, a_pos, b_pos, c_log, svc>>

\* db_info = _get_db_info(req, urls.info)
C_GetDbInfo ==
    /\ c_pc = "info"
    /\ \E ok \in BOOLEAN :
          IF ok THEN c_pc' = "loop_a" /\ c_err' = c_err
                ELSE C_Raise("RequestError")
    /\ UNCHANGED <<not_c, c_req, terms_lst_a, excls_lst_a, terms_lst_b, excls_lst_b,
                   a_pos, b_pos, term_a_counts, term_b_counts, dat_numbers,
                   dat_percent, c_log, svc>>

\* for term_a in terms_lst_a: the next term
C_NextA ==
    /\ c_pc = "loop_a"
    /\ a_pos < Len(terms_lst_a)
    /\ a_pos' = a_pos + 1
    /\ c_pc' = "count_a"
    /\ UNCHANGED <<not_c, c_req, c_err, terms_lst_a, excls_lst_a, terms_lst_b,
                   excls_lst_b, b_pos, term_a_counts, term_b_counts,
                   dat_numbers, dat_percent, c_log, svc>>

\* the loop over terms_lst_a is exhausted
C_LoopADone ==
    /\ c_pc = "loop_a"
    /\ a_pos >= Len(terms_lst_a)
    /\ c_pc' = "close"
    /\ UNCHANGED <<not_c, c_req, c_err, terms_lst_a, excls_lst_a, terms_lst_b,
                   excls_lst_b, a_pos, b_pos, term_a_counts, term_b_counts,
                   dat_numbers, dat_percent, c_log, svc>>

\* excls_lst_a[a_ind] or excls_lst_b[b_ind] of a list that was not given
C_NoExclusion ==
    /\ \/ c_pc = "count_a" /\ AInd(terms_lst_a, a_pos) > Len(excls_lst_a)
       \/ c_pc = "count_b" /\ BInd(terms_lst_b, b_pos) > Len(excls_lst_b)
    /\ C_Raise("IndexError")
    /\ UNCHANGED <<not_c, c_req, terms_lst_a, excls_lst_a, terms_lst_b, excls_lst_b,
                   a_pos, b_pos, term_a_counts, term_b_counts, dat_numbers,
                   dat_percent, c_log, svc>>

\* the url the next _get_count call is given, and the log entry of the call
CurUrl ==
    LET a == AInd(terms_lst_a, a_pos)
        b == BInd(terms_lst_b, b_pos)
    IN  IF c_pc = "count_a" THEN SingleUrl(terms_lst_a[a], excls_lst_a[a])
        ELSE IF c_pc = "count_b" THEN SingleUrl(terms_lst_b[b], excls_lst_b[b])
        ELSE PairUrl(terms_lst_a[a], excls_lst_a[a],
                     terms_lst_b[b], excls_lst_b[b])

CurCall == [kind |-> c_pc, i |-> a_pos,
            j |-> IF c_pc = "count_a" THEN 0 ELSE b_pos, url |-> CurUrl]

CanCall ==
    \/ c_pc = "count_a" /\ AInd(terms_lst_a, a_pos) <= Len(excls_lst_a)
    \/ c_pc = "count_b" /\ BInd(terms_lst_b, b_pos) <= Len(excls_lst_b)
    \/ c_pc = "pair"

\* _get_count raises: the request fails, or counts[0] of a page without a
\* count tag does
C_GetCountFail ==
    /\ CanCall
    /\ c_log' = Append(c_log, CurCall)
    /\ \E e \in {"RequestError", "TypeError"} : C_Raise(e)
    /\ UNCHANGED <<not_c, c_req, terms_lst_a, excls_lst_a, terms_lst_b, excls_lst_b,
                   a_pos, b_pos, term_a_counts, term_b_counts, dat_numbers,
                   dat_percent, svc>>

\* term_a_counts[a_ind] = _get_count(req, url)
C_CountA ==
    /\ c_pc = "count_a"
    /\ CanCall
    /\ c_log' = Append(c_log, CurCall)
    /\ \E n \in Answers(CurUrl) :
          /\ svc' = svc \cup {[url |-> CurUrl, count |-> n]}
          /\ term_a_counts' =
                [term_a_counts EXCEPT ![AInd(terms_lst_a, a_pos)] = n]
    /\ b_pos' = 0
    /\ c_pc' = "loop_b"
    /\ UNCHANGED <<not_c, c_req, c_err, terms_lst_a, excls_lst_a, terms_lst_b,
                   excls_lst_b, a_pos, term_b_counts, dat_numbers,
                   dat_percent>>

\* for term_b in terms_lst_b: the next term
C_NextB ==
    /\ c_pc = "loop_b"
    /\ b_pos < Len(terms_lst_b)
    /\ b_pos' = b_pos + 1
    /\ c_pc' = "count_b"
    /\ UNCHANGED <<not_c, c_req, c_err, terms_lst_a, excls_lst_a, terms_lst_b,
                   excls_lst_b, a_pos, term_a_counts, term_b_counts,
                   dat_numbers, dat_percent, c_log, svc>>

\* the loop over terms_lst_b is exhausted
C_LoopBDone ==
    /\ c_pc = "loop_b"
    /\ b_pos >= Len(terms_lst_b)
    /\ c_pc' = "loop_a"
    /\ UNCHANGED <<not_c, c_req, c_err, terms_lst_a, excls_lst_a, terms_lst_b,
                   excls_lst_b, a_pos, b_pos, term_a_counts, term_b_counts,
                   dat_numbers, dat_percent, c_log, svc>>

\* term_b_counts[b_ind] = _get_count(req, url), inside both loops
C_CountB ==
    /\ c_pc = "count_b"
    /\ CanCall
    /\ c_log' = Append(c_log, CurCall)
    /\ \E n \in Answers(CurUrl) :
          /\ svc' = svc \cup {[url |-> CurUrl, count |-> n]}
          /\ term_b_counts' =
                [term_b_counts EXCEPT ![BInd(terms_lst_b, b_pos)] = n]
    /\ c_pc' = "pair"
    /\ UNCHANGED <<not_c, c_req, c_err, terms_lst_a, excls_lst_a, terms_lst_b,
                   excls_lst_b, a_pos, b_pos, term_a_counts, dat_numbers,
                   dat_percent>>

\* count = _get_count(req, url); dat_numbers[a_ind, b_ind] = count;
\* dat_percent[a_ind, b_ind] = count / term_a_counts[a_ind]
C_Pair ==
    /\ c_pc = "pair"
    /\ c_log' = Append(c_log, CurCall)
    /\ \E n \in Answers(CurUrl) :
          LET a == AInd(terms_lst_a, a_pos)
              b == BInd(terms_lst_b, b_pos)
          IN  /\ svc' = svc \cup {[url |-> CurUrl, count |-> n]}
              /\ dat_numbers' = [dat_numbers EXCEPT ![a][b] = n]
              /\ dat_percent' =
                    [dat_percent EXCEPT ![a][b] = Divide(n, term_a_counts[a])]
    /\ c_pc' = "loop_b"
    /\ UNCHANGED <<not_c, c_req, c_err, terms_lst_a, excls_lst_a, terms_lst_b,
                   excls_lst_b, a_pos, b_pos, term_a_counts, term_b_counts>>

\* req.close(), after the loops; scrape_counts returns the four arrays
C_Close ==
    /\ c_pc = "close"
    /\ c_req' = "closed"
    /\ c_pc' = "returned"
    /\ UNCHANGED <<not_c, c_err, terms_lst_a, excls_lst_a, terms_lst_b, excls_lst_b,
                   a_pos, b_pos, term_a_counts, term_b_counts, dat_numbers,
                   dat_percent, c_log, svc>>

C_Next ==
    \/ C_Open
    \/ C_GetDbInfo
    \/ C_NextA
    \/ C_LoopADone
    \/ C_NoExclusion
    \/ C_GetCountFail
    \/ C_CountA
    \/ C_NextB
    \/ C_LoopBDone
    \/ C_CountB
    \/ C_Pair
    \/ C_Close

(***************************************************************************)
(* The search-term builders as pure functions of four groups.              *)
(***************************************************************************)
MaxSyn == 2

Syns == {"", "x", "y"}
ExclSyns == {"", "w"}
\* a group: one to MaxSyn synonyms; its first entry may be empty
TermGroups == UNION {[1..n -> Syns] : n \in 1..MaxSyn}
ExclGroups == UNION {[1..n -> ExclSyns] : n \in 1..MaxSyn}

U_Start ==
    /\ u_ta \in TermGroups
    /\ u_xa \in ExclGroups
    /\ u_tb \in TermGroups
    /\ u_xb \in ExclGroups
    /\ u_kind = "none"
    /\ u_url = <<>>

\* scrape_counts, the url of the count of a term of list A
U_SingleA ==
    /\ u_kind' = "single_a"
    /\ u_url' = SingleUrl(u_ta, u_xa)
    /\ UNCHANGED <<not_u, u_ta, u_xa, u_tb, u_xb>>

\* scrape_counts, the url of the count of a term of list B
U_SingleB ==
    /\ u_kind' = "single_b"
    /\ u_url' = SingleUrl(u_tb, u_xb)
    /\ UNCHANGED <<not_u, u_ta, u_xa, u_tb, u_xb>>

\* scrape_counts, the url of the co-occurrence count
U_Pair ==
    /\ u_kind' = "pair"
    /\ u_url' = PairUrl(u_ta, u_xa, u_tb, u_xb)
    /\ UNCHANGED <<not_u, u_ta, u_xa, u_tb, u_xb>>

\* scrape_words, the search url of a concept
U_Words ==
    /\ u_kind' = "words"
    /\ u_url' = WordsUrl(u_ta, u_xa)
    /\ UNCHANGED <<not_u, u_ta, u_xa, u_tb, u_xb>>

U_Next ==
    \/ U_SingleA
    \/ U_SingleB
    \/ U_Pair
    \/ U_Words

(***************************************************************************)
(* lisc/words.py: the Words object                                         *)
(***************************************************************************)
MaxResults == 3

Labels == {"P100", "N400", "P600"}

\* the parameters of scrape_words without a default: terms, labels,
\* exclusions
ScrapeWordsRequired == <<"terms", "labels", "exclusions">>

\* run_scrape passes self.terms and self.exclusions by position
RunScrapePositional == 2

\* and db, retmax, use_hist, verbose by keyword
RunScrapeKeywords == {"db", "retmax", "use_hist", "verbose"}

\* the required parameters the call of run_scrape leaves unbound
Unbound ==
    {ScrapeWordsRequired[i] : i \in (RunScrapePositional + 1)..Len(ScrapeWordsRequired)}
        \ RunScrapeKeywords

\* what scrape_words returns: it has no return statement
ScrapeWordsReturns == "None"

O_Start ==
    /\ result_keys = <<>>
    /\ results = <<>>
    /\ results_keys = "unset"
    /\ o_op = "none"
    /\ o_key = "none"
    /\ o_out = [status |-> "none"]

\* add_results(new_result)
O_AddResults ==
    /\ Len(results) < MaxResults
    /\ \E lab \in Labels :
          LET new_result == [label |-> lab, serial |-> Len(results) + 1]
          IN  /\ result_keys' = Append(result_keys, new_result.label)
              /\ results' = Append(results, new_result)
    /\ o_op' = "add_results"
    /\ o_key' = "none"
    /\ o_out' = [status |-> "ok"]
    /\ UNCHANGED <<not_o, results_keys>>

\* self[key]
__getitem__(key) ==
    IF Len(result_keys) = 0 THEN [status |-> "IndexError"]
    ELSE IF \A i \in 1..Len(result_keys) : result_keys[i] # key
         THEN [status |-> "IndexError"]
         ELSE [status |-> "ok", value |-> results[Index(result_keys, key)]]

O_GetItem ==
    /\ \E key \in Labels :
          /\ o_key' = key
          /\ o_out' = __getitem__(key)
    /\ o_op' = "getitem"
    /\ UNCHANGED <<not_o, result_keys, results, results_keys>>

\* run_scrape: the call of scrape_words leaves `exclusions` unbound, which
\* raises TypeError before scrape_words runs; were it bound, unpacking the
\* None that scrape_words returns would raise TypeError.  Neither
\* assignment of run_scrape is reached.
O_RunScrape ==
    /\ Unbound # {} \/ ScrapeWordsReturns = "None"
    /\ o_op' = "run_scrape"
    /\ o_key' = "none"
    /\ o_out' = [status |-> "TypeError"]
    /\ UNCHANGED <<not_o, result_keys, results, results_keys>>

O_Next ==
    \/ O_AddResults
    \/ O_GetItem
    \/ O_RunScrape

(***************************************************************************)
(* The specifications.                                                     *)
(***************************************************************************)

\* scrape_counts is not running
C_Idle ==
    /\ c_pc = "idle" /\ c_req = "none" /\ c_err = "none"
    /\ terms_lst_a = <<>> /\ excls_lst_a = <<>>
    /\ terms_lst_b = <<>> /\ excls_lst_b = <<>>
    /\ a_pos = 0 /\ b_pos = 0
    /\ term_a_counts = <<>> /\ term_b_counts = <<>>
    /\ dat_numbers = <<>> /\ dat_percent = <<>>
    /\ c_log = <<>> /\ svc = {}

\* scrape_words is not running
W_Idle ==
    /\ w_pc = "idle" /\ w_req = "none" /\ w_err = "none"
    /\ use_hist = FALSE /\ n_labels = 0 /\ ind = 0
    /\ count = 0 /\ ret_start = 0
    /\ sent = <<>> /\ ids = <<>> /\ fetch_ids = <<>>
    /\ cur_dat = Data(0) /\ saved = <<>>

\* no url has been built
U_Idle ==
    /\ u_ta = <<"">> /\ u_xa = <<"">> /\ u_tb = <<"">> /\ u_xb = <<"">>
    /\ u_kind = "idle" /\ u_url = <<>>

\* there is no Words object
O_Idle ==
    /\ result_keys = <<>> /\ results = <<>> /\ results_keys = "unset"
    /\ o_op = "idle" /\ o_key = "none" /\ o_out = [status |-> "none"]

W_Init == W_Start /\ C_Idle /\ U_Idle /\ O_Idle

C_Init == C_Start /\ W_Idle /\ U_Idle /\ O_Idle

U_Init == U_Start /\ W_Idle /\ C_Idle /\ O_Idle

O_Init == O_Start /\ W_Idle /\ C_Idle /\ U_Idle

SpecWords == W_Init /\ [][W_Next]_vars

SpecCounts == C_Init /\ [][C_Next]_vars

SpecUrl == U_Init /\ [][U_Next]_vars

SpecObj == O_Init /\ [][O_Next]_vars

(***************************************************************************)
(* Properties.                                                             *)
(***************************************************************************)

CeilDiv(a, b) == (a + b - 1) \div b

\* C1: with use_hist, the retstart values sent for a concept are 0, ret_max,
\* 2*ret_max, ... in this order, each below the reported count, so the loop
\* makes at most ceil(count / ret_max) iterations; when the loop has ended
\* exactly ceil(count / ret_max) fetch requests were issued, and for a count
\* of 0 none was issued and the concept's container holds no record.
C1_HistPagination ==
    use_hist =>
        /\ \A i \in 1..Len(sent) :
              sent[i] = (i - 1) * ret_max /\ sent[i] < count
        /\ w_pc = "paging" => ret_start = Len(sent) * ret_max
        /\ w_pc = "check" => Len(sent) = CeilDiv(count, ret_max)
        /\ (w_pc = "check" /\ count = 0) =>
              (sent = <<>> /\ cur_dat = Data(cur_dat.label))

\* a concept whose count is not a multiple of the page size has been
\* drained in two fetch requests
C1_Witness ==
    /\ use_hist
    /\ w_pc = "check"
    /\ count > ret_max
    /\ count % ret_max # 0
    /\ Len(sent) = 2

\* a piece of a url that ends, or starts, a term expression
Operators == {"OR", "AND", "NOT"}
EndsOperand(tok) == tok \notin Operators \cup {"("} \cup {SearchBase[1]}
StartsOperand(tok) == tok \notin Operators \cup {")"} \cup {SearchBase[1]}

\* a url holds an operator that does not stand between two term expressions
Dangling(url) ==
    \E p \in 1..Len(url) :
        /\ url[p] \in Operators
        /\ ~ /\ p > 1
             /\ p < Len(url)
             /\ EndsOperand(url[p - 1])
             /\ StartsOperand(url[p + 1])

\* C2: a group whose first entry is empty contributes nothing to the url, and
\* no search url built by scrape_counts or scrape_words holds a dangling OR,
\* AND or NOT.
C2_NoDanglingOperator ==
    /\ (u_kind = "single_a" /\ u_ta[1] = "" /\ u_xa[1] = "")
          => u_url = SearchBase
    /\ u_kind \in {"single_a", "single_b", "pair", "words"}
          => ~Dangling(u_url)

\* the count the service reported for a query
SvcCount(url) == (CHOOSE e \in svc : e.url = url).count

\* the requests of one kind logged for the positions i, j
Calls(kind, i, j) ==
    {k \in 1..Len(c_log) :
        c_log[k].kind = kind /\ c_log[k].i = i /\ c_log[k].j = j}

\* the urls the positions i of A and j of B stand for
UrlOfA(i) == SingleUrl(terms_lst_a[i], excls_lst_a[i])
UrlOfPair(i, j) == PairUrl(terms_lst_a[i], excls_lst_a[i],
                           terms_lst_b[j], excls_lst_b[j])

\* C3: when scrape_counts returns, for every position i of A and j of B one
\* combined request was issued for the pair, cell [i, j] of the raw matrix is
\* the count reported for the pair, and cell [i, j] of the normalized matrix
\* is that count divided by the count of A[i].
C3_MatrixCells ==
    c_pc = "returned" =>
        \A i \in 1..Len(terms_lst_a) : \A j \in 1..Len(terms_lst_b) :
            /\ Cardinality(Calls("pair", i, j)) = 1
            /\ dat_numbers[i][j] = SvcCount(UrlOfPair(i, j))
            /\ SvcCount(UrlOfA(i)) # 0 =>
                  dat_percent[i][j] =
                     Num(SvcCount(UrlOfPair(i, j)), SvcCount(UrlOfA(i)))

\* C4: when scrape_counts returns, one single-term request was issued per
\* concept of A and one per concept of B.
C4_SingleCountsOnce ==
    c_pc = "returned" =>
        /\ Cardinality({k \in 1..Len(c_log) : c_log[k].kind = "count_a"})
              = Len(terms_lst_a)
        /\ Cardinality({k \in 1..Len(c_log) : c_log[k].kind = "count_b"})
              = Len(terms_lst_b)

\* C5: a division by zero never ends the run, and when scrape_counts returns
\* every normalized cell in the row of a concept of A whose count is zero is
\* an undefined-ratio marker, not a number.
C5_ZeroCountFlagged ==
    /\ c_err # "ZeroDivisionError"
    /\ c_pc = "returned" =>
          \A i \in 1..Len(terms_lst_a) :
              SvcCount(UrlOfA(i)) = 0 =>
                  \A j \in 1..Len(terms_lst_b) :
                      dat_percent[i][j].kind \in {"nan", "inf"}

\* C6: when a run has returned or raised, its Requester is closed.
C6_ClientClosed ==
    /\ w_pc \in {"returned", "raised"} => w_req = "closed"
    /\ c_pc \in {"returned", "raised"} => c_req = "closed"

\* C7: a failed consistency check does not end the run while concepts of
\* the label list are left.
C7_ConsistencyErrorDoesNotAbort ==
    ~ (w_pc = "raised" /\ w_err = "ConsistencyError" /\ ind < n_labels)

\* C8: a step in which a fetch request fails leaves the concept's container
\* and the saved results as they were and raises the request's error, and
\* once the run has raised no further fetch request is issued.
C8_FetchFailureKeepsPages ==
    [][ /\ (w_pc \in {"paging", "fetch"} /\ w_pc' = "raised") =>
              /\ cur_dat' = cur_dat
              /\ saved' = saved
              /\ w_err' = "RequestError"
        /\ w_pc = "raised" =>
              /\ w_pc' = "raised"
              /\ sent' = sent
              /\ fetch_ids' = fetch_ids
              /\ cur_dat' = cur_dat
              /\ saved' = saved ]_vars

\* the second concept's fetch failed on its second page, after a page of
\* records; the first concept is saved
C8_Witness ==
    /\ w_pc = "raised"
    /\ w_err = "RequestError"
    /\ Len(sent) = 2
    /\ cur_dat.n_articles > 0
    /\ Len(saved) = 1

\* the ids joined by commas, in order
RECURSIVE JoinCommas(_)
JoinCommas(id_seq) ==
    IF Len(id_seq) = 0 THEN <<>>
    ELSE IF Len(id_seq) = 1 THEN <<id_seq[1]>>
    ELSE JoinCommas(SubSeq(id_seq, 1, Len(id_seq) - 1))
            \o <<",", id_seq[Len(id_seq)]>>

\* C9: without use_hist, every search page leads to one fetch request whose
\* id argument is the page's ids joined by commas, whatever the number of
\* ids.
C9_DirectFetch ==
    ~use_hist =>
        /\ ~ (w_pc = "raised" /\ w_err = "IndexError")
        /\ w_pc \in {"check", "save"} => fetch_ids = <<JoinCommas(ids)>>

\* C10: result_keys[i] is the label of results[i] for every i, self[key]
\* returns the first result labelled key and raises IndexError when there
\* is none, and run_scrape completes.
C10_KeysMatchResults ==
    /\ Len(result_keys) = Len(results)
    /\ \A i \in 1..Len(results) : result_keys[i] = results[i].label
    /\ o_op = "getitem" =>
          IF \E i \in 1..Len(results) : results[i].label = o_key
          THEN o_out.status = "ok" /\ o_out.value.label = o_key
          ELSE o_out.status = "IndexError"
    /\ o_op = "run_scrape" => o_out.status = "ok"

====
